---------------------------- MODULE Spec2Model ----------------------------
(***************************************************************************)
(* Model of auto-veto.cc (MJD veto production processing): channel         *)
(* threshold calibration (VetoThreshFinder), the event error classifier    *)
(* (CheckEventErrors), the dual-clock time reconciliation, the run-level   *)
(* LED checks and the muon coincidence tagging (ProcessVetoData).          *)
(*                                                                         *)
(* Times are C++ doubles in seconds.  They are modelled exactly as         *)
(* records [s |-> whole seconds, f |-> 0 .. SubSec-1] counting 1/SubSec    *)
(* of a second (half milliseconds), value = s + f/SubSec.  All clock       *)
(* readings of the modelled runs are whole milliseconds, so that the one   *)
(* division of the code (InterpTime's mean of two readings) is exact.      *)
(***************************************************************************)
EXTENDS Integers, Sequences, FiniteSets

\* ------------------------------------------------------------------------
\* Program constants
\* ------------------------------------------------------------------------
NumChannels == 32
nErrs == 29
NumErrFlags == 18
NumPlanes == 12
SBCRunCutoff == 8557
SBCMax == 2000000000
DesyncSeconds == 2
LEDMultipThreshold == 5
LEDSimpleThreshold == 10
EnergyThreshold == 500
threshVal == 35
ShortRunEntries == 100
DisabledRunCutoff == 45000000
DisabledPanelCutoff == 23

Channels == 0 .. (NumChannels - 1)
ErrSlots == 0 .. (nErrs - 1)
ErrFlags == 0 .. (NumErrFlags - 1)
Planes == 0 .. (NumPlanes - 1)

\* ------------------------------------------------------------------------
\* Exact arithmetic on times (seconds with a sub-second part)
\* ------------------------------------------------------------------------
SubSec == 2 * 1000

TNorm(s, f) == [s |-> s + (f \div SubSec), f |-> f % SubSec]
TSec(n) == [s |-> n, f |-> 0]
TMs(ms) == TNorm(0, 2 * ms)
TZero == TSec(0)
TAdd(a, b) == TNorm(a.s + b.s, a.f + b.f)
TSub(a, b) == TNorm(a.s - b.s, a.f - b.f)
TLt(a, b) == (a.s < b.s) \/ (a.s = b.s /\ a.f < b.f)
TGt(a, b) == TLt(b, a)
TAbs(a) == IF a.s < 0 THEN TSub(TZero, a) ELSE a
\* (a)/2.0 ; exact whenever a is a whole number of sub-second units, which
\* the sum of two whole-millisecond readings is.
THalf(a) == TNorm(a.s \div 2, ((a.s % 2) * SubSec + a.f) \div 2)

\* fabs(TSdifference) < 0.001
SyncTolerance == TMs(1)
\* fabs(...) > 2
DesyncTolerance == TSec(DesyncSeconds)

\* ------------------------------------------------------------------------
\* MJVetoEvent (MJVetoEvent.hh is not part of the sources: modelled from the
\* data model of the specification and from the accessors the code calls)
\* ------------------------------------------------------------------------
\* The state of a default-constructed or Clear()-ed event: entry -1 is the
\* "not established" sentinel the classifier tests on the first-good event.
ClearedEvent ==
    [entry |-> -1, run |-> 0, error |-> [e \in ErrFlags |-> FALSE],
     badScaler |-> FALSE, timeSec |-> TZero, timeSBC |-> TZero,
     SEC |-> 0, QEC |-> 0, QEC2 |-> 0,
     qdc |-> [q \in Channels |-> 0], multip |-> 0]

\* Number of channels above their software threshold.
RECURSIVE CountAbove(_, _, _)
CountAbove(qdc, thr, n) ==
    IF n = 0 THEN 0
    ELSE CountAbove(qdc, thr, n - 1) + (IF qdc[n - 1] > thr[n - 1] THEN 1 ELSE 0)

\* veto.SetSWThresh(thr); veto.WriteEvent(i, run, event, bits, run, true):
\* the decoded record raw becomes the event of entry i, with the multiplicity
\* counted against the thresholds thr.
WriteEvent(i, raw, thr) ==
    [entry |-> i, run |-> raw.run, error |-> raw.error,
     badScaler |-> raw.badScaler, timeSec |-> raw.timeSec,
     timeSBC |-> raw.timeSBC, SEC |-> raw.SEC, QEC |-> raw.QEC,
     QEC2 |-> raw.QEC2, qdc |-> raw.qdc,
     multip |-> CountAbove(raw.qdc, thr, NumChannels)]


\* ------------------------------------------------------------------------
\* CheckEventErrors
\* ------------------------------------------------------------------------
Abs(x) == IF x < 0 THEN -x ELSE x

\* Faulty variant of StructuralBlocking: duplicate channels (slot 6) no longer
\* count as blocking.
StructuralBlockingNoDuplicate == {1, 2, 3, 5, 9, 13, 14}

\* Faulty variant of StructuralBlocking: missing channels (slot 1) no longer
\* count as blocking.
StructuralBlockingNoMissing == {2, 3, 5, 6, 9, 13, 14}

\* The slots whose flag sets skip ('s' in the comment of CheckEventErrors).
StructuralBlocking == {1, 2, 3, 5, 6, 9, 13, 14}
SyncBlocking == {18, 19, 20, 21, 22, 23, 24}

\* for (i = 0; i < 18; i++) EventErrors[i] = veto.GetError(i): slot q < 18
CopyStructural(veto, q) == veto.error[q]

\* for (q = 0; q < 18; q++) if (EventErrors[q]==1 && (q==1||...||q==14)) skip = true
StructuralSkip(errs) ==
    \E q \in ErrFlags : errs[q] /\ q \in StructuralBlocking

\* veto.GetBadScaler() && (veto.GetRun() < 8557 || veto.GetTimeSBC() > 2000000000)
InterpSlotCondition(veto) ==
    veto.badScaler /\ (veto.run < SBCRunCutoff \/ TGt(veto.timeSBC, TSec(SBCMax)))

\* SBCOffset = first.GetTimeSBC() - first.GetTimeSec()
OffsetOf(first) == TSub(first.timeSBC, first.timeSec)

\* Faulty variant of DesyncCondition: a difference of 2 s counts.
DesyncConditionAtTolerance(veto, prev, first) ==
    LET offset == OffsetOf(first)
        tSBC == TSub(veto.timeSBC, offset)
        prevtSBC == TSub(prev.timeSBC, offset)
        dSec == TSub(veto.timeSec, prev.timeSec)
        dSBC == TSub(tSBC, prevtSBC)
    IN  /\ TGt(veto.timeSec, TZero)
        /\ TGt(tSBC, TZero)
        /\ offset # TZero
        /\ ~veto.error[1]
        /\ veto.entry > first.entry
        /\ ~TLt(TAbs(TSub(dSec, dSBC)), DesyncTolerance)

DesyncCondition(veto, prev, first) ==
    LET offset == OffsetOf(first)
        tSBC == TSub(veto.timeSBC, offset)
        prevtSBC == TSub(prev.timeSBC, offset)
        dSec == TSub(veto.timeSec, prev.timeSec)
        dSBC == TSub(tSBC, prevtSBC)
    IN  /\ TGt(veto.timeSec, TZero)
        /\ TGt(tSBC, TZero)
        /\ offset # TZero
        /\ ~veto.error[1]
        /\ veto.entry > first.entry
        /\ TGt(TAbs(TSub(dSec, dSBC)), DesyncTolerance)

\* Faulty variant of CountReset: the entry is not compared with the first
\* good entry.
CountResetAnyEntry(count, veto, first) == count = 0 /\ veto.entry # 0

\* veto.GetSEC() == 0 && entry != 0 && entry > firstGoodEntry
CountReset(count, veto, first) ==
    count = 0 /\ veto.entry # 0 /\ veto.entry > first.entry

\* Faulty variant of CountJump: the entry is not compared with the first
\* good entry, so entry 0 is compared with whatever the previous event holds.
CountJumpAnyEntry(count, prevCount, veto, first, prevGoodEntry) ==
    /\ Abs(count - prevCount) > veto.entry - prevGoodEntry
    /\ count # 0

\* Faulty variant of CountJump: an advance by the number of entries since
\* the previous good entry counts as a jump.
CountJumpAtTolerance(count, prevCount, veto, first, prevGoodEntry) ==
    /\ Abs(count - prevCount) >= veto.entry - prevGoodEntry
    /\ veto.entry > first.entry
    /\ count # 0

\* abs(veto.GetSEC() - prev.GetSEC()) > entry-prevGoodEntry
\*      && entry > firstGoodEntry && veto.GetSEC() != 0
CountJump(count, prevCount, veto, first, prevGoodEntry) ==
    /\ Abs(count - prevCount) > veto.entry - prevGoodEntry
    /\ veto.entry > first.entry
    /\ count # 0

\* The checks made once the first good entry is known: slot q of 18..24.
SyncError(q, veto, prev, first, prevGoodEntry) ==
    CASE q = 18 -> DesyncCondition(veto, prev, first)
      [] q = 19 -> CountReset(veto.SEC, veto, first)
      [] q = 20 -> CountJump(veto.SEC, prev.SEC, veto, first, prevGoodEntry)
      [] q = 21 -> CountReset(veto.QEC, veto, first) /\ ~veto.error[1]
      [] q = 22 -> CountJump(veto.QEC, prev.QEC, veto, first, prevGoodEntry)
      [] q = 23 -> CountReset(veto.QEC2, veto, first) /\ ~veto.error[1]
      [] q = 24 -> CountJump(veto.QEC2, prev.QEC2, veto, first, prevGoodEntry)
      [] OTHER -> FALSE

\* for (q = 18; q < 26; q++) if (EventErrors[q]==1 && (q==18||...||q==24)) skip = true
SyncSkip(errs) ==
    \E q \in 18 .. 25 : errs[q] /\ q \in SyncBlocking

\* Faulty variant of EventErrorsOf: the checks of slots 18..24 are made even
\* when the first good entry is not known.
EventErrorsWithoutEarlyReturn(veto, prev, first, prevGoodEntry) ==
    [q \in ErrSlots |->
        IF q < NumErrFlags THEN CopyStructural(veto, q)
        ELSE IF q = 25 THEN InterpSlotCondition(veto)
        ELSE SyncError(q, veto, prev, first, prevGoodEntry)]

\* The vector assigned to ErrorVec: the structural flags and slot 25, and,
\* unless the function returns early (firstGoodEntry == -1), slots 18..24.
EventErrorsOf(veto, prev, first, prevGoodEntry) ==
    [q \in ErrSlots |->
        IF q < NumErrFlags THEN CopyStructural(veto, q)
        ELSE IF q = 25 THEN InterpSlotCondition(veto)
        ELSE first.entry # -1 /\ SyncError(q, veto, prev, first, prevGoodEntry)]

\* The value returned: skip, set by the structural loop and, past the early
\* return, by the loop over slots 18..25.
SkipOf(errs, first) ==
    StructuralSkip(errs) \/ (first.entry # -1 /\ SyncSkip(errs))

ClassifierResult(errs, first) == [skip |-> SkipOf(errs, first), errors |-> errs]

\* bool CheckEventErrors(veto, prev, first, prevGoodEntry, ErrorVec):
\* the returned skip and the error vector assigned to ErrorVec.
CheckEventErrors(veto, prev, first, prevGoodEntry) ==
    ClassifierResult(EventErrorsOf(veto, prev, first, prevGoodEntry), first)

\* ------------------------------------------------------------------------
\* InterpTime
\* ------------------------------------------------------------------------
\* C++ vectors are sequences; element i of the vector is v[i + 1].
At(v, i) == v[i + 1]

\* for (i = entry; i < entries.size(); i++) if (badScaler[i] == 0) { upper = times[i]; break; }
InterpUpper(entry, times, entries, badScaler) ==
    LET ok == {i \in entry .. (Len(entries) - 1) : ~At(badScaler, i)}
    IN  IF ok = {} THEN TZero
        ELSE At(times, CHOOSE i \in ok : \A k \in ok : i <= k)

\* for (j = entry; j > 0; j--) if (badScaler[j] == 0) { lower = times[j]; break; }
InterpLower(entry, times, badScaler) ==
    LET ok == {j \in 1 .. entry : ~At(badScaler, j)}
    IN  IF ok = {} THEN TZero
        ELSE At(times, CHOOSE j \in ok : \A k \in ok : j >= k)

InterpTime(entry, times, entries, badScaler) ==
    IF Len(times) # Len(entries) \/ Len(times) # Len(badScaler)
    THEN TSec(-1)
    ELSE IF ~At(badScaler, entry) THEN At(times, entry)
    ELSE THalf(TAdd(InterpUpper(entry, times, entries, badScaler),
                    InterpLower(entry, times, badScaler)))

\* ------------------------------------------------------------------------
\* PanelMap
\* ------------------------------------------------------------------------
PanelMap(i) ==
    CASE i \in 0 .. 5 -> 0
      [] i \in 6 .. 11 -> 1
      [] i \in {17, 18} -> 3
      [] i \in {20, 21} -> 2
      [] i \in {15, 16} -> 5
      [] i \in {19, 23} -> 4
      [] i \in {24, 26} -> 6
      [] i \in {25, 27} -> 7
      [] i \in {12, 13} -> 8
      [] i \in {14, 22} -> 9
      [] i \in {28, 30} -> 10
      [] i \in {29, 31} -> 11
      [] OTHER -> -1

\* ------------------------------------------------------------------------
\* Time selection (2nd and 3rd loop of ProcessVetoData)
\* ------------------------------------------------------------------------
\* run > 8557 && veto.GetTimeSBC() < 2000000000
SBCValid(veto) ==
    veto.run > SBCRunCutoff /\ TLt(veto.timeSBC, TSec(SBCMax))

\* Faulty variant of TimeBranch: the auxiliary clock is preferred whenever it
\* is inside its validity window, the bad-scaler flag being looked at second.
TimeBranchAuxFirst(veto) ==
    IF SBCValid(veto) THEN "sbc"
    ELSE IF ~veto.badScaler THEN "scaler"
    ELSE "interp"

\* Which branch of the if / else if / else of the time selection is taken.
TimeBranch(veto) ==
    IF ~veto.badScaler THEN "scaler"
    ELSE IF SBCValid(veto) THEN "sbc"
    ELSE "interp"

\* ------------------------------------------------------------------------
\* ROOT histograms (TH1D), as far as the code uses them.  A histogram is the
\* sequence of the values it was filled with; bin 0 is the underflow bin and
\* bin nbins+1 the overflow bin.
\* ------------------------------------------------------------------------
Min(S) == CHOOSE x \in S : \A y \in S : x <= y
Max(S) == CHOOSE x \in S : \A y \in S : x >= y

\* hLowQDC[i] = new TH1D(hname, hname, 500, 0, 500): one bin per QDC unit.
QDCBins == 500
QDCBin(x) == IF x < 0 THEN 0 ELSE IF x >= QDCBins THEN QDCBins + 1 ELSE x + 1

\* LEDDeltaT = new TH1D("LEDDeltaT","LEDDeltaT",100000,0,100): 0.001 sec/bin.
LEDBins == 100000
LEDRangeSeconds == 100
LEDBin(t) ==
    IF t.s < 0 THEN 0
    ELSE IF t.s >= LEDRangeSeconds THEN LEDBins + 1
    ELSE t.s * 1000 + (t.f \div 2) + 1

\* The content of bin b, the bins of the fills being bins.
BinContent(bins, b) == Cardinality({k \in 1 .. Len(bins) : bins[k] = b})

\* TH1::FindFirstBinAbove(threshold, 1): the first bin of 1..nbins whose
\* content is above threshold, -1 when there is none.
FindFirstBinAbove(bins, nbins, threshold) ==
    LET above == {b \in {bins[k] : k \in 1 .. Len(bins)} :
                     b \in 1 .. nbins /\ BinContent(bins, b) > threshold}
    IN  IF above = {} THEN -1 ELSE Min(above)

\* TAxis::SetRange(first, last): the range kept, clipped to the bins 1..nbins.
AxisRange(first, last, nbins) ==
    LET l1 == IF last <= 0 \/ last > nbins THEN nbins ELSE last
        f1 == IF l1 < first \/ first < 1 THEN 1 ELSE first
    IN  [first |-> f1, last |-> l1]

\* TH1::GetMaximumBin(): the first bin of the axis range with the largest
\* content (the first bin of the range when every bin is empty).
GetMaximumBin(bins, range) ==
    LET filled == {b \in {bins[k] : k \in 1 .. Len(bins)} :
                      b >= range.first /\ b <= range.last}
        top == Max({BinContent(bins, b) : b \in filled})
    IN  IF filled = {} THEN range.first
        ELSE Min({b \in filled : BinContent(bins, b) = top})

\* The bin of each fill of a QDC histogram, and of LEDDeltaT.
QDCFills(hist) == [k \in 1 .. Len(hist) |-> QDCBin(hist[k])]
LEDFills(hist) == [k \in 1 .. Len(hist) |-> LEDBin(hist[k])]

\* ------------------------------------------------------------------------
\* FindPanelThreshold
\* ------------------------------------------------------------------------
\* The bin centre of bin b of hLowQDC is b - 0.5, and the int returned is
\* xval + threshVal truncated: b - 1 + threshVal.
PedestalBin(bins, firstNonzeroBin) ==
    GetMaximumBin(bins, AxisRange(firstNonzeroBin - 10, firstNonzeroBin + 50, QDCBins))

\* Faulty variant of ThresholdAbove: the bin number is taken for the
\* amplitude of the bin.
ThresholdAtBinNumber(bins, firstNonzeroBin, tv) ==
    IF firstNonzeroBin = -1 THEN -1
    ELSE PedestalBin(bins, firstNonzeroBin) + tv

ThresholdAbove(bins, firstNonzeroBin, tv) ==
    IF firstNonzeroBin = -1 THEN -1
    ELSE (PedestalBin(bins, firstNonzeroBin) - 1) + tv

ThresholdOfBins(bins, tv) ==
    ThresholdAbove(bins, FindFirstBinAbove(bins, QDCBins, 1), tv)

FindPanelThreshold(qdcHist, tv, panel, run) ==
    IF run > DisabledRunCutoff /\ panel > DisabledPanelCutoff THEN 9999
    ELSE ThresholdOfBins(QDCFills(qdcHist), tv)

\* ------------------------------------------------------------------------
\* The input chain.  A run is a sequence of decoded records; the records of
\* the modelled runs are a regular event (scaler and SBC clocks in step,
\* 0.2 s apart, counters advancing by one, every channel at its pedestal)
\* changed in one respect, named by its kind.
\* ------------------------------------------------------------------------
MaxEntries == 4

Kinds == {"ok", "led", "miss", "bads", "jump", "drift", "over"}

RunNumbers == {SBCRunCutoff, SBCRunCutoff + 1}

\* vRun->GetStartTime() and vRun->GetStopTime() of the modelled runs.
RunTimes == {[start |-> 0, stop |-> 10]}

QDCPedestal == [q \in Channels |-> 50]
QDCAllHigh == [q \in Channels |-> 600]

RegularTime(i) == TMs(200 * (i + 1))

RegularEvent(i, run) ==
    [run |-> run, error |-> [e \in ErrFlags |-> FALSE], badScaler |-> FALSE,
     timeSec |-> RegularTime(i),
     timeSBC |-> TAdd(TSec(1000), RegularTime(i)),
     SEC |-> i + 1, QEC |-> i + 1, QEC2 |-> i + 1, qdc |-> QDCPedestal]

RawEvent(i, kind, run) ==
    LET r == RegularEvent(i, run)
        badTimestamp == [r EXCEPT !.badScaler = TRUE, !.error[4] = TRUE,
                                  !.timeSec = TZero]
    IN  CASE kind = "ok" -> r
          [] kind = "led" -> [r EXCEPT !.qdc = QDCAllHigh]
          [] kind = "miss" -> [r EXCEPT !.error[1] = TRUE]
          [] kind = "bads" -> badTimestamp
          [] kind = "jump" -> [r EXCEPT !.timeSec = TAdd(r.timeSec, TMs(9800))]
          [] kind = "drift" -> [r EXCEPT !.timeSec = TAdd(r.timeSec, TMs(1))]
          [] kind = "over" -> [badTimestamp EXCEPT !.timeSBC = TSec(SBCMax + 1)]

\* The chains of the modelled runs: up to MaxEntries records, of which at
\* most two are neither "ok" nor "led".
Irregular(c) == {i \in DOMAIN c : c[i] \notin {"ok", "led"}}
Chains ==
    UNION {{c \in [1 .. n -> Kinds] : Cardinality(Irregular(c)) <= 2} :
              n \in 1 .. MaxEntries}

\* ------------------------------------------------------------------------
\* State
\* ------------------------------------------------------------------------
VARIABLES
    \* the chain, its run number, the -e option, start and stop of the run
    chain, runNum, errorCheckOnly, start, stop,
    \* which loop runs, and the entry reader.Next() delivers next
    pc, idx,
    \* VetoThreshFinder
    hLowQDC, hMultip, thresh,
    \* locals of both VetoThreshFinder and ProcessVetoData
    prev, first, prevGoodEntry, skippedEvents,
    \* ProcessVetoData: thresholds and LED variables
    swThresh, highestMultip, multipThreshold, LEDperiod, badLEDFreq,
    IsLED, LEDTurnedOff, simpleLEDCount, firstLED, LEDDeltaT,
    \* ProcessVetoData: error checks
    SeriousErrorCount, TotalErrorCount, EntryTime, EntryNum, BadScalers,
    EventError, ErrorCount, badEvent,
    \* ProcessVetoData: muon ID
    TimeCut, EnergyCut, PlaneHitCount, CoinType, CutType, PlaneHits, PlaneTrue,
    \* ProcessVetoData: time variables
    SBCOffset, ApproxTime, foundScalerJump, deltaTadj, timeSBC, prevtimeSBC,
    duration, livetime, xTime, x_deltaT, xTimePrevLED, xTimePrevLEDSimple,
    TSdifference, prevGoodTime, firstGoodScaler, foundFirst, foundFirstScaler,
    \* ProcessVetoData: events kept and the output tree
    last, out, vetoTree,
    \* one call of a function taken alone: its arguments, and what it returned
    call, ret

inputVars == <<chain, runNum, errorCheckOnly, start, stop>>
calibVars == <<hLowQDC, hMultip, thresh>>
classifierVars == <<prev, first, prevGoodEntry, skippedEvents>>
ledVars == <<swThresh, highestMultip, multipThreshold, LEDperiod, badLEDFreq,
             IsLED, LEDTurnedOff, simpleLEDCount, firstLED, LEDDeltaT>>
errorVars == <<SeriousErrorCount, TotalErrorCount, EntryTime, EntryNum,
               BadScalers, EventError, ErrorCount, badEvent>>
muonVars == <<TimeCut, EnergyCut, PlaneHitCount, CoinType, CutType, PlaneHits,
              PlaneTrue>>
timeVars == <<SBCOffset, ApproxTime, foundScalerJump, deltaTadj, timeSBC,
              prevtimeSBC, duration, livetime, xTime, x_deltaT, xTimePrevLED,
              xTimePrevLEDSimple, TSdifference, prevGoodTime, firstGoodScaler,
              foundFirst, foundFirstScaler>>
outVars == <<last, out, vetoTree>>
callVars == <<call, ret>>

vars == <<inputVars, pc, idx, calibVars, classifierVars, ledVars, errorVars,
          muonVars, timeVars, outVars, callVars>>

\* vetoChain->GetEntries()
vEntries == Len(chain)

\* The record reader.Next() delivers for entry i.
Record(i) == RawEvent(i, chain[i + 1], runNum)

\* ------------------------------------------------------------------------
\* Initial state: main() has opened the chain and parsed the command line,
\* and the locals of ProcessVetoData hold the values of their declarations.
\* ------------------------------------------------------------------------
ZeroVector == [k \in Channels |-> 0]
NoErrors == [q \in ErrSlots |-> FALSE]

\* int def[32] = {1,1,...,1}
def == [q \in Channels |-> 1]

\* An exact fraction n/d (d > 0): LEDperiod in seconds.
Frac(n, d) == [n |-> n, d |-> d]
FracGt(x, k) == x.n > k * x.d
FracLt(x, k) == x.n < k * x.d

\* The values the declarations of main(), VetoThreshFinder and ProcessVetoData
\* give their locals.
Declared ==
    /\ errorCheckOnly = FALSE
    /\ start = 0
    /\ stop = 0
    /\ pc = "Calibrating"
    /\ idx = 0
    /\ hLowQDC = [q \in Channels |-> << >>]
    /\ hMultip = << >>
    /\ thresh = [q \in Channels |-> IF q = 0 THEN 9999 ELSE 0]
    /\ prev = ClearedEvent
    /\ first = ClearedEvent
    /\ prevGoodEntry = 0
    /\ skippedEvents = 0
    /\ swThresh = ZeroVector
    /\ highestMultip = 0
    /\ multipThreshold = 0
    /\ LEDperiod = Frac(0, 1)
    /\ badLEDFreq = FALSE
    /\ IsLED = FALSE
    /\ LEDTurnedOff = FALSE
    /\ simpleLEDCount = 0
    /\ firstLED = FALSE
    /\ LEDDeltaT = << >>
    /\ SeriousErrorCount = 0
    /\ TotalErrorCount = 0
    /\ EntryTime = << >>
    /\ EntryNum = << >>
    /\ BadScalers = << >>
    /\ EventError = NoErrors
    /\ ErrorCount = [q \in ErrSlots |-> 0]
    /\ badEvent = FALSE
    /\ TimeCut = TRUE
    /\ EnergyCut = FALSE
    /\ PlaneHitCount = 0
    /\ CoinType = ZeroVector
    /\ CutType = ZeroVector
    /\ PlaneHits = ZeroVector
    /\ PlaneTrue = ZeroVector
    /\ SBCOffset = TZero
    /\ ApproxTime = FALSE
    /\ foundScalerJump = FALSE
    /\ deltaTadj = TZero
    /\ timeSBC = TZero
    /\ prevtimeSBC = TZero
    /\ duration = TZero
    /\ livetime = TZero
    /\ xTime = TZero
    /\ x_deltaT = TZero
    /\ xTimePrevLED = TZero
    /\ xTimePrevLEDSimple = TZero
    /\ TSdifference = TZero
    /\ prevGoodTime = TZero
    /\ firstGoodScaler = TZero
    /\ foundFirst = FALSE
    /\ foundFirstScaler = FALSE
    /\ last = ClearedEvent
    /\ out = ClearedEvent
    /\ vetoTree = << >>

\* No function is being looked at alone.
NoCall == [fn |-> "none"]

Init ==
    /\ chain \in Chains
    /\ runNum \in RunNumbers
    /\ Declared
    /\ call = NoCall
    /\ ret = NoCall

\* Faulty variant of EndOfEventEntry: a skipped entry does not become the
\* previous good entry.
LastGoodEntry(skip, i, old) == IF skip THEN old ELSE i

\* prevGoodEntry = i: the end-of-event reset, made in the skip branch of a
\* loop as at the end of its body.
EndOfEventEntry(skip, i, old) == i

\* ------------------------------------------------------------------------
\* VetoThreshFinder
\* ------------------------------------------------------------------------
\* One iteration of the first while (reader.Next()) loop.
CalibrateEvent ==
    /\ pc = "Calibrating"
    /\ idx < vEntries
    /\ \E veto \in {WriteEvent(idx, Record(idx), def)} :
       \E skip \in {CheckEventErrors(veto, prev, first, prevGoodEntry).skip} :
           /\ skippedEvents' = IF skip THEN skippedEvents + 1 ELSE skippedEvents
           /\ hLowQDC' = IF skip THEN hLowQDC
                         ELSE [q \in Channels |-> Append(hLowQDC[q], veto.qdc[q])]
           /\ prev' = veto
           /\ prevGoodEntry' = EndOfEventEntry(skip, idx, prevGoodEntry)
    /\ idx' = idx + 1
    /\ UNCHANGED <<callVars, inputVars, pc, hMultip, thresh, first, ledVars, errorVars,
                   muonVars, timeVars, outVars>>

\* The first loop is over: thresh[i] = FindPanelThreshold(...) for every
\* channel, and the reader is reset for the re-scan.
FindThresholds ==
    /\ pc = "Calibrating"
    /\ idx = vEntries
    /\ thresh' = [q \in Channels |->
                     FindPanelThreshold(hLowQDC[q], threshVal, q, runNum)]
    /\ pc' = "CalibRescan"
    /\ idx' = 0
    /\ UNCHANGED <<callVars, inputVars, hLowQDC, hMultip, classifierVars, ledVars,
                   errorVars, muonVars, timeVars, outVars>>

\* One iteration of the re-scan that fills the multiplicity plot.
RescanEvent ==
    /\ pc = "CalibRescan"
    /\ idx < vEntries
    /\ \E veto \in {WriteEvent(idx, Record(idx), thresh)} :
       \E skip \in {CheckEventErrors(veto, prev, first, prevGoodEntry).skip} :
           /\ skippedEvents' = IF skip THEN skippedEvents + 1 ELSE skippedEvents
           /\ hMultip' = IF skip THEN hMultip ELSE Append(hMultip, veto.multip)
           /\ prev' = veto
           /\ prevGoodEntry' = EndOfEventEntry(skip, idx, prevGoodEntry)
    /\ idx' = idx + 1
    /\ UNCHANGED <<callVars, inputVars, pc, hLowQDC, thresh, first, ledVars, errorVars,
                   muonVars, timeVars, outVars>>

\* VetoThreshFinder returns the (panel, threshold) pairs and main() calls
\* ProcessVetoData(vetoChain, thresholds, outputDir, errorCheckOnly), which
\* copies them into swThresh, declares its locals and reads start and stop of
\* the run.
StartProcessing ==
    /\ pc = "CalibRescan"
    /\ idx = vEntries
    /\ errorCheckOnly' \in BOOLEAN
    /\ \E t \in RunTimes :
          /\ start' = t.start
          /\ stop' = t.stop
          /\ duration' = TSec(t.stop - t.start)
    /\ swThresh' = thresh
    /\ prev' = ClearedEvent
    /\ first' = ClearedEvent
    /\ prevGoodEntry' = 0
    /\ skippedEvents' = 0
    /\ pc' = "RunSurvey"
    /\ idx' = 0
    /\ UNCHANGED <<callVars, chain, runNum, calibVars, highestMultip, multipThreshold,
                   LEDperiod, badLEDFreq, IsLED, LEDTurnedOff, simpleLEDCount,
                   firstLED, LEDDeltaT, errorVars, muonVars, SBCOffset,
                   ApproxTime, foundScalerJump, deltaTadj, timeSBC, prevtimeSBC,
                   livetime, xTime, x_deltaT, xTimePrevLED, xTimePrevLEDSimple,
                   TSdifference, prevGoodTime, firstGoodScaler, foundFirst,
                   foundFirstScaler, outVars>>

\* ------------------------------------------------------------------------
\* ProcessVetoData, 1st loop: LED frequency, first good entry, highest
\* multiplicity, time tables
\* ------------------------------------------------------------------------
\* ((double)i / vEntries) * duration, rounded down to the time resolution.
\* The value stands in the time table of a bad-scaler entry, which InterpTime
\* never reads.
EntryFraction(i, n, d) == TNorm(0, (i * (d.s * SubSec + d.f)) \div n)

\* Faulty variant of IsFirstGood: foundFirst is not tested.
IsFirstGoodAgain(found, veto) ==
    TGt(veto.timeSBC, TZero) /\ TGt(veto.timeSec, TZero) /\ ~veto.error[4]

\* if (!foundFirst && veto.GetTimeSBC() > 0 && veto.GetTimeSec() > 0 && !veto.GetError(4))
IsFirstGood(found, veto) ==
    ~found /\ TGt(veto.timeSBC, TZero) /\ TGt(veto.timeSec, TZero) /\ ~veto.error[4]

SurveyEvent ==
    /\ pc = "RunSurvey"
    /\ idx < vEntries
    /\ \E veto \in {WriteEvent(idx, Record(idx), swThresh)} :
       \E skip \in {CheckEventErrors(veto, prev, first, prevGoodEntry).skip} :
       LET xT == IF ~veto.badScaler THEN veto.timeSec
                 ELSE EntryFraction(idx, vEntries, duration)
           \* if (foundFirst && veto.GetError(1)) foundFirst = false
           found == foundFirst /\ ~veto.error[1]
           takeFirst == ~skip /\ IsFirstGood(found, veto)
           isSimpleLED == ~skip /\ veto.multip > LEDSimpleThreshold
       IN  /\ BadScalers' = Append(BadScalers, veto.badScaler)
           /\ EntryNum' = Append(EntryNum, idx)
           /\ EntryTime' = Append(EntryTime, xT)
           /\ xTime' = xT
           /\ foundFirstScaler' = (foundFirstScaler \/ ~veto.error[4])
           /\ firstGoodScaler' = IF ~foundFirstScaler /\ ~veto.error[4]
                                 THEN veto.timeSec ELSE firstGoodScaler
           /\ skippedEvents' = IF skip THEN skippedEvents + 1 ELSE skippedEvents
           /\ first' = IF takeFirst THEN veto ELSE first
           /\ foundFirst' = (found \/ takeFirst)
           /\ highestMultip' = IF ~skip /\ veto.multip > highestMultip
                               THEN veto.multip ELSE highestMultip
           /\ LEDDeltaT' = IF isSimpleLED
                           THEN Append(LEDDeltaT, TSub(veto.timeSec, prev.timeSec))
                           ELSE LEDDeltaT
           /\ simpleLEDCount' = IF isSimpleLED THEN simpleLEDCount + 1
                                ELSE simpleLEDCount
           /\ prev' = veto
           /\ prevGoodTime' = xT
           /\ prevGoodEntry' = EndOfEventEntry(skip, idx, prevGoodEntry)
    /\ idx' = idx + 1
    /\ UNCHANGED <<callVars, inputVars, pc, calibVars, swThresh, multipThreshold,
                   LEDperiod, badLEDFreq, IsLED, LEDTurnedOff, firstLED,
                   SeriousErrorCount, TotalErrorCount, EventError, ErrorCount,
                   badEvent, muonVars, SBCOffset, ApproxTime, foundScalerJump,
                   deltaTadj, timeSBC, prevtimeSBC, duration, livetime, x_deltaT,
                   xTimePrevLED, xTimePrevLEDSimple, TSdifference, outVars>>

\* ------------------------------------------------------------------------
\* ProcessVetoData, run-level checks
\* ------------------------------------------------------------------------
RECURSIVE SumCentres(_, _, _)
\* Sum over the fills inside the axis range of twice the bin centre, in
\* bins (a bin of LEDDeltaT is 0.001 s wide and bin b is centred at b - 0.5).
SumCentres(bins, range, k) ==
    IF k = 0 THEN 0
    ELSE SumCentres(bins, range, k - 1)
         + (IF bins[k] >= range.first /\ bins[k] <= range.last
            THEN 2 * bins[k] - 1 ELSE 0)

\* TH1::GetMean() over the axis range, in seconds.
HistMean(bins, range) ==
    LET inRange == Cardinality({k \in 1 .. Len(bins) :
                       bins[k] >= range.first /\ bins[k] <= range.last})
    IN  IF inRange = 0 THEN Frac(0, 1)
        ELSE Frac(SumCentres(bins, range, Len(bins)), 2 * 1000 * inRange)

\* LEDperiod = 1/LEDfreq with LEDfreq = 1/LEDDeltaT->GetMean() over +/- 100
\* bins of the maximum bin, or LEDfreq = 9999 when the histogram has no entry.
MeanAround(bins, maxbin) ==
    HistMean(bins, AxisRange(maxbin - 100, maxbin + 100, LEDBins))

MeanOfBins(bins) ==
    MeanAround(bins, GetMaximumBin(bins, [first |-> 1, last |-> LEDBins]))

HistoPeriod(deltas) ==
    IF Len(deltas) > 0 THEN MeanOfBins(LEDFills(deltas)) ELSE Frac(1, 9999)

\* if (LEDperiod > 9 || vEntries < 100)
IsShortRun(period, entries) == FracGt(period, 9) \/ entries < ShortRunEntries

\* if (simpleLEDCount > 3) LEDperiod = duration/simpleLEDCount
UseSimpleRate(count) == count > 3

\* The period after the short-run adjustment.
AdjustedPeriod(histo, entries, count, dur) ==
    IF IsShortRun(histo, entries)
    THEN IF UseSimpleRate(count)
         THEN Frac(dur.s * SubSec + dur.f, SubSec * count)
         ELSE Frac(9999, 1)
    ELSE histo

FinalPeriod(deltas, entries, count, dur) ==
    AdjustedPeriod(HistoPeriod(deltas), entries, count, dur)

\* badLEDFreq after the run-level checks.
FinalBadLEDFreq(deltas, entries, count) ==
    \/ Len(deltas) = 0
    \/ (IsShortRun(HistoPeriod(deltas), entries) /\ ~UseSimpleRate(count))

\* if (LEDperiod > 20 || LEDperiod < 0 || badLEDFreq)
BadLEDRate(period, bad) == FracGt(period, 20) \/ FracLt(period, 0) \/ bad

RunLevelChecks ==
    /\ pc = "RunSurvey"
    /\ idx = vEntries
    /\ \E dur \in {IF ~TGt(duration, TZero)
                   THEN TSub(prevGoodTime, firstGoodScaler) ELSE duration} :
       \E period \in {FinalPeriod(LEDDeltaT, vEntries, simpleLEDCount, dur)} :
       \E bad \in {FinalBadLEDFreq(LEDDeltaT, vEntries, simpleLEDCount)} :
           /\ SBCOffset' = OffsetOf(first)
           /\ duration' = dur
           /\ livetime' = TSub(dur, TSub(first.timeSec, firstGoodScaler))
           /\ multipThreshold' =
                 IF highestMultip - LEDMultipThreshold < 0 THEN 0
                 ELSE highestMultip - LEDMultipThreshold
           /\ LEDperiod' = period
           /\ badLEDFreq' = bad
           /\ ErrorCount' = IF BadLEDRate(period, bad)
                            THEN [ErrorCount EXCEPT ![25] = @ + 1]
                            ELSE ErrorCount
    \* the 2nd loop starts with the reader and the error bools reset
    /\ EventError' = NoErrors
    /\ pc' = "ErrorTally"
    /\ idx' = 0
    /\ UNCHANGED <<callVars, inputVars, calibVars, classifierVars, swThresh,
                   highestMultip, IsLED, LEDTurnedOff, simpleLEDCount, firstLED,
                   LEDDeltaT, SeriousErrorCount, TotalErrorCount, EntryTime,
                   EntryNum, BadScalers, badEvent, muonVars, ApproxTime,
                   foundScalerJump, deltaTadj, timeSBC, prevtimeSBC, xTime,
                   x_deltaT, xTimePrevLED, xTimePrevLEDSimple, TSdifference,
                   prevGoodTime, firstGoodScaler, foundFirst, foundFirstScaler,
                   outVars>>

\* ------------------------------------------------------------------------
\* ProcessVetoData, 2nd loop: error checks
\* ------------------------------------------------------------------------
\* for (j = 0; j < nErrs; j++) if (EventError[j]==1) ErrorCount[j]++
CountErrors(counts, errs) ==
    [j \in ErrSlots |-> IF errs[j] THEN counts[j] + 1 ELSE counts[j]]

\* vector<int> SeriousErrors
SeriousErrors == {1, 13, 14, 18, 19, 20, 21, 22, 23, 24}

\* EntryTime[i] = xTime
SetAt(v, i, x) == [v EXCEPT ![i + 1] = x]

\* The timestamp chosen by the if / else if / else of the time selection.
SelectedTime(veto, offset, times, entries, badScaler) ==
    CASE TimeBranch(veto) = "scaler" -> veto.timeSec
      [] TimeBranch(veto) = "sbc" -> TSub(veto.timeSBC, offset)
      [] TimeBranch(veto) = "interp" ->
             InterpTime(veto.entry, times, entries, badScaler)

TallyEvent ==
    /\ pc = "ErrorTally"
    /\ idx < vEntries
    /\ \E veto \in {WriteEvent(idx, Record(idx), swThresh)} :
       \E errs \in {CheckEventErrors(veto, prev, first, prevGoodEntry).errors} :
       \E branch \in {TimeBranch(veto)} :
       \E tSBC \in {IF branch = "scaler" /\ SBCValid(veto)
                    THEN TSub(veto.timeSBC, SBCOffset) ELSE timeSBC} :
       \E xT \in {SelectedTime(veto, SBCOffset, EntryTime, EntryNum, BadScalers)} :
           /\ ErrorCount' = CountErrors(ErrorCount, errs)
           /\ xTime' = xT
           /\ EntryTime' = SetAt(EntryTime, idx, xT)
           /\ TSdifference' = TSub(veto.timeSec, tSBC)
           /\ prevtimeSBC' = tSBC
           /\ timeSBC' = TZero
           /\ prev' = veto
           /\ last' = veto
           /\ prevGoodEntry' = idx
           \* std::fill(EventError.begin(), EventError.end(), 0)
           /\ EventError' = NoErrors
    /\ idx' = idx + 1
    /\ UNCHANGED <<callVars, inputVars, pc, calibVars, first, skippedEvents, ledVars,
                   SeriousErrorCount, TotalErrorCount, EntryNum, BadScalers,
                   badEvent, muonVars, SBCOffset, ApproxTime, foundScalerJump,
                   deltaTadj, duration, livetime, x_deltaT, xTimePrevLED,
                   xTimePrevLEDSimple, prevGoodTime, firstGoodScaler, foundFirst,
                   foundFirstScaler, out, vetoTree>>

RECURSIVE SumCounts(_, _)
SumCounts(counts, S) ==
    IF S = {} THEN 0
    ELSE LET j == CHOOSE x \in S : TRUE
         IN  counts[j] + SumCounts(counts, S \ {j})

\* Faulty variant of ReturnsAfterTally: the -e option is ignored.
NeverReturnsEarly(checkOnly) == FALSE

\* if (errorCheckOnly) return;
ReturnsAfterTally(checkOnly) == checkOnly

\* The error report after the 2nd loop; with errorCheckOnly the function
\* returns here, otherwise the 3rd loop is set up.
ErrorReport ==
    /\ pc = "ErrorTally"
    /\ idx = vEntries
    /\ TotalErrorCount' =
          TotalErrorCount + SumCounts(ErrorCount, (1 .. (nErrs - 1)) \ {10, 11})
    /\ SeriousErrorCount' =
          SeriousErrorCount + ErrorCount[25] + SumCounts(ErrorCount, SeriousErrors)
    /\ IF ReturnsAfterTally(errorCheckOnly)
       THEN /\ pc' = "Done"
            /\ UNCHANGED <<idx, prev, skippedEvents>>
       ELSE /\ pc' = "Emitting"
            /\ idx' = 0
            /\ prev' = ClearedEvent
            /\ skippedEvents' = 0
    /\ UNCHANGED <<callVars, inputVars, calibVars, first, prevGoodEntry, ledVars,
                   EntryTime, EntryNum, BadScalers, EventError, ErrorCount,
                   badEvent, muonVars, timeVars, outVars>>

\* ------------------------------------------------------------------------
\* ProcessVetoData, 3rd loop: find muons, write the output tree
\* ------------------------------------------------------------------------
\* timeSBC after the time selection of the 3rd loop (tSBC is its value
\* before, left by the reset of the previous entry).
SelectedTimeSBC(veto, offset, tSBC) ==
    IF SBCValid(veto) THEN TSub(veto.timeSBC, offset) ELSE tSBC

\* if (EventError[18]) { foundScalerJump = true; xTime = xTime - deltaTadj; }
\* if (foundScalerJump) { ApproxTime = true; xTime = xTime - TSdifference; }
JumpAdjusted(xT, err18, jump, dTadj, TSdiff) ==
    LET x1 == IF err18 THEN TSub(xT, dTadj) ELSE xT
    IN  IF err18 \/ jump THEN TSub(x1, TSdiff) ELSE x1

\* if (fabs(TSdifference) < 0.001) foundScalerJump = false
JumpFlagAfter(err18, jump, TSdiff) ==
    IF TLt(TAbs(TSdiff), SyncTolerance) THEN FALSE ELSE (err18 \/ jump)

\* LEDTurnedOff = ErrorCount[25]
LEDOff(counts) == counts[25] # 0

\* TimeCut = false;
\* if (veto.GetMultip() < multipThreshold && !LEDTurnedOff) TimeCut = true;
\* else if (LEDTurnedOff) TimeCut = true;
TimeCutOf(multip, threshold, off) == (multip < threshold /\ ~off) \/ off

\* Faulty variant of EnergyCutOf: more than two channels are asked for.
EnergyCutOverTwo(qdc) == Cardinality({q \in Channels : qdc[q] > EnergyThreshold}) > 2

\* over500Count >= 2
EnergyCutOf(qdc) == Cardinality({q \in Channels : qdc[q] > EnergyThreshold}) >= 2

\* Faulty variant of ChannelsAbove: an amplitude at the threshold counts.
ChannelsAtOrAbove(qdc, thr) == {q \in Channels : qdc[q] >= thr[q]}

\* if (veto.GetQDC(k) > veto.GetSWThresh(k)): the channels that count as hit.
ChannelsAbove(qdc, thr) == {q \in Channels : qdc[q] > thr[q]}

\* PlaneHits[k]: the hit channels that PanelMap puts in plane k.
PlaneHitsOf(above, k) == Cardinality({q \in above : PanelMap(q) = k})

\* The three geometric types of the muon identification.
IsVertical(pt) == pt[0] = 1 /\ pt[1] = 1 /\ pt[2] = 1 /\ pt[3] = 1
IsSideBottom(pt) ==
    (pt[0] = 1 /\ pt[1] = 1) /\
    ((pt[2] = 1 /\ pt[3] = 1) \/ (pt[4] = 1 /\ pt[5] = 1) \/ (pt[6] = 1 /\ pt[7] = 1)
        \/ (pt[8] = 1 /\ pt[9] = 1) \/ (pt[10] = 1 /\ pt[11] = 1))
IsTopSides(pt) ==
    (pt[2] = 1 /\ pt[3] = 1) /\
    ((pt[4] = 1 /\ pt[5] = 1) \/ (pt[6] = 1 /\ pt[7] = 1)
        \/ (pt[8] = 1 /\ pt[9] = 1) \/ (pt[10] = 1 /\ pt[11] = 1))

B2I(b) == IF b THEN 1 ELSE 0

\* CoinType after the muon identification.
CoinTypeOf(timeCut, energyCut, pt) ==
    [r \in Channels |->
        IF ~(timeCut /\ energyCut) THEN 0
        ELSE CASE r = 0 -> 1
               [] r = 1 -> B2I(IsVertical(pt))
               [] r = 2 -> B2I(IsSideBottom(pt))
               [] r = 3 -> B2I(IsTopSides(pt))
               [] OTHER -> 0]

\* The value of "type" that selects hitType.
HitTypeOf(pt) ==
    LET a == IsVertical(pt)
        b == IsSideBottom(pt)
        c == IsTopSides(pt)
    IN  IF (a /\ b) \/ (a /\ c) \/ (b /\ c) THEN 4
        ELSE IF c THEN 3 ELSE IF b THEN 2 ELSE IF a THEN 1 ELSE 0

\* Faulty variant of TreeEntry: the record of a skipped event is filled
\* without its badEvent mark.
TreeEntryUnmarked(o, xT, tSBC, dT, coin, cut, hits, true, count, bad, errs, counts) ==
    [run |-> runNum, vetoEvent |-> o, xTime |-> xT, timeSBC |-> tSBC,
     x_deltaT |-> dT, CoinType |-> coin, CutType |-> cut, PlaneHits |-> hits,
     PlaneTrue |-> true, PlaneHitCount |-> count, badEvent |-> FALSE,
     EventErrors |-> errs, ErrorCount |-> counts]

\* vetoTree->Fill(): the values of the branch variables at the call.
TreeEntry(o, xT, tSBC, dT, coin, cut, hits, true, count, bad, errs, counts) ==
    [run |-> runNum, vetoEvent |-> o, xTime |-> xT, timeSBC |-> tSBC,
     x_deltaT |-> dT, CoinType |-> coin, CutType |-> cut, PlaneHits |-> hits,
     PlaneTrue |-> true, PlaneHitCount |-> count, badEvent |-> bad,
     EventErrors |-> errs, ErrorCount |-> counts]

\* One iteration of the 3rd loop.
EmitEvent ==
    /\ pc = "Emitting"
    /\ idx < vEntries
    /\ \E veto \in {WriteEvent(idx, Record(idx), swThresh)} :
       \E check1 \in {CheckEventErrors(veto, prev, first, prevGoodEntry)} :
       \E counts \in {CountErrors(ErrorCount, check1.errors)} :
       \* Calculate time of event
       \E tSBC \in {SelectedTimeSBC(veto, SBCOffset, timeSBC)} :
       \E xSel \in {SelectedTime(veto, SBCOffset, EntryTime, EntryNum, BadScalers)} :
       \* Scaler jump handling
       \E dTadj \in {TSub(TSub(veto.timeSec, tSBC), TSdifference)} :
       \E err18 \in {check1.errors[18]} :
       \E xT \in {JumpAdjusted(xSel, err18, foundScalerJump, dTadj, TSdifference)} :
       \E approx \in {(TimeBranch(veto) = "interp") \/ err18 \/ foundScalerJump} :
       \* badEvent = CheckEventErrors(veto,prev,first,prevGoodEntry,EventError)
       \E check2 \in {CheckEventErrors(veto, prev, first, prevGoodEntry)} :
       \E bad \in {check2.skip} :
       \* LED / Time Cut, Energy Cut, Hit Pattern, Muon Identification
       \E off \in {LEDOff(counts)} :
       \E dT \in {TSub(xT, xTimePrevLED)} :
       \E tCut \in {TimeCutOf(veto.multip, multipThreshold, off)} :
       \E eCut \in {EnergyCutOf(veto.qdc)} :
       \E above \in {ChannelsAbove(veto.qdc, swThresh)} :
       \E hits \in {[k \in Channels |->
                       IF k < NumPlanes THEN PlaneHitsOf(above, k)
                       ELSE PlaneHits[k]]} :
       \E true \in {[k \in Channels |->
                       IF k < NumPlanes THEN B2I(hits[k] > 0) ELSE PlaneTrue[k]]} :
       \E count \in {Cardinality({k \in Planes : true[k] = 1})} :
       \E coin \in {CoinTypeOf(tCut, eCut, true)} :
       \E cut \in {[r \in Channels |->
                      CASE r = 0 -> B2I(off)
                        [] r = 1 -> B2I(eCut)
                        [] r = 2 -> B2I(approx)
                        [] r = 3 -> B2I(tCut)
                        [] r = 4 -> B2I(IsLED)
                        [] r = 5 -> B2I(firstLED)
                        [] r = 6 -> B2I(badLEDFreq)
                        [] OTHER -> 0]} :
           /\ EventError' = check2.errors
           /\ ErrorCount' = counts
           /\ ApproxTime' = approx
           /\ xTime' = xT
           /\ deltaTadj' = dTadj
           /\ foundScalerJump' = JumpFlagAfter(err18, foundScalerJump, TSdifference)
           /\ badEvent' = bad
           /\ IF bad
              THEN /\ skippedEvents' = skippedEvents + 1
                   /\ vetoTree' = Append(vetoTree,
                         TreeEntry(out, xT, tSBC, x_deltaT, CoinType, CutType,
                                   PlaneHits, PlaneTrue, PlaneHitCount, bad,
                                   check2.errors, counts))
                   /\ UNCHANGED <<LEDTurnedOff, x_deltaT, muonVars,
                                  xTimePrevLEDSimple, out>>
              ELSE /\ LEDTurnedOff' = off
                   /\ x_deltaT' = dT
                   /\ TimeCut' = tCut
                   /\ EnergyCut' = eCut
                   /\ PlaneHits' = hits
                   /\ PlaneTrue' = true
                   /\ PlaneHitCount' = count
                   /\ CoinType' = coin
                   /\ CutType' = cut
                   /\ out' = veto
                   /\ vetoTree' = Append(vetoTree,
                         TreeEntry(veto, xT, tSBC, dT, coin, cut, hits, true,
                                   count, bad, check2.errors, counts))
                   /\ xTimePrevLEDSimple' = IF veto.multip > multipThreshold
                                            THEN xT ELSE xTimePrevLEDSimple
                   /\ UNCHANGED skippedEvents
           \* resets used by error check
           /\ TSdifference' = TSub(veto.timeSec, tSBC)
           /\ prevtimeSBC' = tSBC
           /\ timeSBC' = TZero
           /\ prev' = veto
           /\ last' = veto
           /\ prevGoodEntry' = EndOfEventEntry(bad, idx, prevGoodEntry)
    /\ idx' = idx + 1
    /\ UNCHANGED <<callVars, inputVars, pc, calibVars, first, swThresh, highestMultip,
                   multipThreshold, LEDperiod, badLEDFreq, IsLED, simpleLEDCount,
                   firstLED, LEDDeltaT, SeriousErrorCount, TotalErrorCount,
                   EntryTime, EntryNum, BadScalers, SBCOffset, duration,
                   livetime, xTimePrevLED, prevGoodTime, firstGoodScaler,
                   foundFirst, foundFirstScaler>>

\* The 3rd loop is over: the tree is written and the file closed.
Finish ==
    /\ pc = "Emitting"
    /\ idx = vEntries
    /\ pc' = "Done"
    /\ UNCHANGED <<callVars, inputVars, idx, calibVars, classifierVars, ledVars, errorVars,
                   muonVars, timeVars, outVars>>

Next ==
    \/ CalibrateEvent
    \/ FindThresholds
    \/ RescanEvent
    \/ StartProcessing
    \/ SurveyEvent
    \/ RunLevelChecks
    \/ TallyEvent
    \/ ErrorReport
    \/ EmitEvent
    \/ Finish

Spec == Init /\ [][Next]_vars

\* ------------------------------------------------------------------------
\* CheckEventErrors and InterpTime taken alone: one call of the function on
\* arguments of the kind the loops pass, and its return.
\* ------------------------------------------------------------------------
orchestratorVars == <<inputVars, pc, idx, calibVars, classifierVars, ledVars,
                      errorVars, muonVars, timeVars, outVars>>

\* Run numbers on both sides of the cutoff of the auxiliary clock.
CallRuns == {SBCRunCutoff - 1, SBCRunCutoff, SBCRunCutoff + 1}

\* veto.GetError(0..17): no flag, or one flag of the 18.
FlagSets == {{}} \cup {{q} : q \in ErrFlags}

\* SEC, QEC, QEC2 of entry i: in step, or one of them reset or jumped.
CounterReadings(i) ==
    {<<i + 1, i + 1, i + 1>>}
        \cup {<<x, i + 1, i + 1>> : x \in {0, i + 6}}
        \cup {<<i + 1, x, i + 1>> : x \in {0, i + 6}}
        \cup {<<i + 1, i + 1, x>> : x \in {0, i + 6}}

\* The event of entry i handed to the classifier.
VetoArgs(i) ==
    {WriteEvent(i,
        [run |-> r, error |-> [e \in ErrFlags |-> e \in F], badScaler |-> b,
         timeSec |-> ts, timeSBC |-> tb, SEC |-> c[1], QEC |-> c[2],
         QEC2 |-> c[3], qdc |-> QDCPedestal], def) :
        r \in CallRuns, F \in FlagSets, b \in BOOLEAN,
        ts \in {TZero, RegularTime(i), TAdd(RegularTime(i), TMs(9800))},
        tb \in {TAdd(TSec(1000), RegularTime(i)), TSec(SBCMax), TSec(SBCMax + 1)},
        c \in CounterReadings(i)}

\* Calls of CheckEventErrors on entry 1: prev is entry 0, first is entry 0 or
\* not yet found, and ErrorVec holds what an earlier call left in it.
ClassifierCalls ==
    {[fn |-> "CheckEventErrors", veto |-> v,
      prev |-> WriteEvent(0, RegularEvent(0, v.run), def), first |-> f,
      prevGoodEntry |-> 0, ErrorVec |-> stale] :
        v \in VetoArgs(1),
        f \in {ClearedEvent, WriteEvent(0, RegularEvent(0, SBCRunCutoff), def)},
        stale \in {NoErrors, [q \in ErrSlots |-> TRUE]}}

\* The tables of a run of n entries with the bad-scaler entries bad: the 1st
\* loop puts the scaler time of a good entry and (i/vEntries)*duration of a
\* bad one in EntryTime.
TimeTable(n, bad) ==
    [k \in 1 .. n |-> IF bad[k] THEN EntryFraction(k - 1, n, TSec(10))
                      ELSE RegularTime(k - 1)]

EntryTable(n) == [k \in 1 .. n |-> k - 1]

\* Calls of InterpTime on the tables of runs of up to MaxEntries entries.
InterpCalls ==
    UNION {{[fn |-> "InterpTime", entry |-> i, times |-> TimeTable(n, bad),
             entries |-> EntryTable(n), badScaler |-> bad] :
               i \in 0 .. (n - 1), bad \in [1 .. n -> BOOLEAN]} :
              n \in 1 .. MaxEntries}

FunctionInit ==
    /\ chain = <<"ok">>
    /\ runNum = SBCRunCutoff
    /\ Declared
    /\ call \in ClassifierCalls \cup InterpCalls
    /\ ret = NoCall

\* skip = CheckEventErrors(veto, prev, first, prevGoodEntry, ErrorVec)
ClassifyCall ==
    /\ call.fn = "CheckEventErrors"
    /\ ret = NoCall
    /\ \E r \in {CheckEventErrors(call.veto, call.prev, call.first,
                                  call.prevGoodEntry)} :
          ret' = [fn |-> "CheckEventErrors", skip |-> r.skip,
                  ErrorVec |-> r.errors]
    /\ UNCHANGED <<call, orchestratorVars>>

\* iTime = InterpTime(entry, times, entries, badScaler)
InterpCall ==
    /\ call.fn = "InterpTime"
    /\ ret = NoCall
    /\ ret' = [fn |-> "InterpTime",
               iTime |-> InterpTime(call.entry, call.times, call.entries,
                                    call.badScaler)]
    /\ UNCHANGED <<call, orchestratorVars>>

FunctionNext == ClassifyCall \/ InterpCall

FunctionSpec == FunctionInit /\ [][FunctionNext]_vars

\* ------------------------------------------------------------------------
\* The cuts, the hit pattern and the muon identification of the 3rd loop
\* taken alone: the block applied to one event that passed the error check.
\* ------------------------------------------------------------------------
\* The lowest channel of plane p.
PlaneChannel(p) == Min({q \in Channels : PanelMap(q) = p})

\* An event with the channels of H at amplitude amp and the others at the
\* pedestal.
QDCWith(H, amp) == [q \in Channels |-> IF q \in H THEN amp ELSE QDCPedestal[q]]

\* One channel above 500 in each plane of a set of planes.
PlaneEvents == {QDCWith({PlaneChannel(p) : p \in P}, 600) : P \in SUBSET Planes}

\* Up to two channels at an amplitude at or on either side of the software
\* threshold or the energy threshold.
PairEvents ==
    {QDCWith({a, b}, amp) : a \in Channels, b \in Channels,
                            amp \in {50 + threshVal, 300, EnergyThreshold, 600}}
        \cup {QDCPedestal}

\* swThresh as FindPanelThreshold leaves it: pedestal + threshVal, 9999 on
\* the channels above 23 of a run above 45000000, or -1 everywhere.
CalibratedThresh == [q \in Channels |-> 50 + threshVal]
DisabledThresh ==
    [q \in Channels |-> IF q > DisabledPanelCutoff THEN 9999 ELSE 50 + threshVal]
UncalibratedThresh == [q \in Channels |-> -1]
ThresholdTables == {CalibratedThresh, DisabledThresh}

\* multipThreshold and LEDTurnedOff as the run-level checks leave them.
TimeCutSettings ==
    {[multipThreshold |-> 0, LEDTurnedOff |-> FALSE],
     [multipThreshold |-> NumChannels - LEDMultipThreshold, LEDTurnedOff |-> FALSE],
     [multipThreshold |-> 0, LEDTurnedOff |-> TRUE]}

\* The calls on the events of a set, with the threshold tables of a set.
MuonCalls(events, tables) ==
    {[fn |-> "MuonID",
      veto |-> WriteEvent(0, [RegularEvent(0, SBCRunCutoff) EXCEPT !.qdc = e], thr),
      swThresh |-> thr, multipThreshold |-> s.multipThreshold,
      LEDTurnedOff |-> s.LEDTurnedOff] :
        e \in events, thr \in tables, s \in TimeCutSettings}

MuonInit ==
    /\ chain = <<"ok">>
    /\ runNum = SBCRunCutoff
    /\ Declared
    /\ \/ call \in MuonCalls(PlaneEvents, ThresholdTables)
       \/ call \in MuonCalls(PairEvents, ThresholdTables \cup {UncalibratedThresh})
    /\ ret = NoCall

\* LED / Time Cut, Energy Cut, Hit Pattern, Muon Identification, Output.
MuonIdentify ==
    /\ call.fn = "MuonID"
    /\ ret = NoCall
    /\ \E tCut \in {TimeCutOf(call.veto.multip, call.multipThreshold,
                              call.LEDTurnedOff)} :
       \E eCut \in {EnergyCutOf(call.veto.qdc)} :
       \E above \in {ChannelsAbove(call.veto.qdc, call.swThresh)} :
       \E hits \in {[k \in Channels |->
                       IF k < NumPlanes THEN PlaneHitsOf(above, k)
                       ELSE PlaneHits[k]]} :
       \E true \in {[k \in Channels |->
                       IF k < NumPlanes THEN B2I(hits[k] > 0) ELSE PlaneTrue[k]]} :
          ret' = [fn |-> "MuonID", TimeCut |-> tCut, EnergyCut |-> eCut,
                  PlaneHits |-> hits, PlaneTrue |-> true,
                  PlaneHitCount |-> Cardinality({k \in Planes : true[k] = 1}),
                  CoinType |-> CoinTypeOf(tCut, eCut, true),
                  type |-> IF tCut /\ eCut THEN HitTypeOf(true) ELSE 0]
    /\ UNCHANGED <<call, orchestratorVars>>

MuonSpec == MuonInit /\ [][MuonIdentify]_vars

\* ------------------------------------------------------------------------
\* FindPanelThreshold taken alone: one call on the histogram of a channel.
\* ------------------------------------------------------------------------
\* The most fills of a histogram handed to FindPanelThreshold.
MaxFills == 6

\* Amplitudes around a pedestal at 50, one far above it and one beyond the
\* axis of hLowQDC.
FillAmplitudes == {40, 50, 58, 95, 120, 600}

\* The content of a histogram does not depend on the order of its fills:
\* the fills are taken in ascending order.
FillSequences ==
    UNION {{h \in [1 .. n -> FillAmplitudes] :
               \A k \in 1 .. (n - 1) : h[k] <= h[k + 1]} : n \in 0 .. MaxFills}

CalibratorCalls ==
    {[fn |-> "FindPanelThreshold", qdcHist |-> h, threshVal |-> threshVal,
      panel |-> p, runNum |-> r] :
        h \in FillSequences,
        p \in {DisabledPanelCutoff, DisabledPanelCutoff + 1},
        r \in {DisabledRunCutoff, DisabledRunCutoff + 1}}

CalibratorInit ==
    /\ chain = <<"ok">>
    /\ runNum = SBCRunCutoff
    /\ Declared
    /\ call \in CalibratorCalls
    /\ ret = NoCall

\* thresh[i] = FindPanelThreshold(hLowQDC[i], threshVal, i, runNum)
CalibratorCall ==
    /\ call.fn = "FindPanelThreshold"
    /\ ret = NoCall
    /\ ret' = [fn |-> "FindPanelThreshold",
               thresh |-> FindPanelThreshold(call.qdcHist, call.threshVal,
                                             call.panel, call.runNum)]
    /\ UNCHANGED <<call, orchestratorVars>>

CalibratorSpec == CalibratorInit /\ [][CalibratorCall]_vars

\* ------------------------------------------------------------------------
\* The LED frequency check of the run-level checks taken alone: LEDDeltaT,
\* simpleLEDCount, vEntries and duration as the 1st loop leaves them.
\* ------------------------------------------------------------------------
\* The most events above LEDSimpleThreshold of a run handed to the check.
MaxLEDEvents == 4

\* Deltas inside the axis of LEDDeltaT, and one beyond it.
DeltaValues == {TMs(200), TSec(12), TSec(25), TSec(150)}

\* LEDDeltaT is filled and simpleLEDCount incremented together.
DeltaSequences == UNION {[1 .. n -> DeltaValues] : n \in 0 .. MaxLEDEvents}

\* The duration after the correction of a corrupted one.
Durations == {TSec(-1), TSec(0), TSec(10), TSec(100)}

PeriodCalls ==
    {[fn |-> "RunLevelChecks", LEDDeltaT |-> h, simpleLEDCount |-> Len(h),
      vEntries |-> n, duration |-> dur] :
        h \in DeltaSequences, n \in {ShortRunEntries - 1, ShortRunEntries},
        dur \in Durations}

PeriodInit ==
    /\ chain = <<"ok">>
    /\ runNum = SBCRunCutoff
    /\ Declared
    /\ call \in PeriodCalls
    /\ ret = NoCall

\* find LED frequency, and try to adjust if we have a short run
PeriodCheck ==
    /\ call.fn = "RunLevelChecks"
    /\ ret = NoCall
    /\ \E period \in {FinalPeriod(call.LEDDeltaT, call.vEntries,
                                  call.simpleLEDCount, call.duration)} :
       \E bad \in {FinalBadLEDFreq(call.LEDDeltaT, call.vEntries,
                                   call.simpleLEDCount)} :
          ret' = [fn |-> "RunLevelChecks", LEDperiod |-> period,
                  badLEDFreq |-> bad, flagged |-> BadLEDRate(period, bad)]
    /\ UNCHANGED <<call, orchestratorVars>>

PeriodSpec == PeriodInit /\ [][PeriodCheck]_vars

\* ------------------------------------------------------------------------
\* The synchronization checks of CheckEventErrors taken alone: calls on
\* entry 2 of a run with entry 1 as the previous event, as the loops pass
\* them once the first good event is known.
\* ------------------------------------------------------------------------
\* Scaler times of entry 2: none, in step, and ahead by 2 s and by the
\* smallest step more than 2 s.
SyncScalerTimes ==
    {TZero, RegularTime(2), TAdd(RegularTime(2), TSec(DesyncSeconds)),
     TAdd(RegularTime(2), TNorm(DesyncSeconds, 1))}

\* SBC times of entry 2: in step, ahead by the smallest step more than 2 s,
\* and below the offset.
SyncSBCTimes ==
    {TAdd(TSec(1000), RegularTime(2)),
     TAdd(TSec(1000), TAdd(RegularTime(2), TNorm(DesyncSeconds, 1))),
     TSec(500)}

\* SEC, QEC, QEC2 of entry 2 (those of entry 1 are 2): in step, or one of
\* them reset, repeated, one less, or ahead by two.
SyncCounterReadings ==
    {<<3, 3, 3>>}
        \cup {<<x, 3, 3>> : x \in {0, 1, 2, 4}}
        \cup {<<3, x, 3>> : x \in {0, 1, 2, 4}}
        \cup {<<3, 3, x>> : x \in {0, 1, 2, 4}}

\* The first good event: entry 0, entry 0 with its two clocks equal (offset
\* 0), or an entry that entry 2 does not exceed.
SyncFirstEvents ==
    {WriteEvent(0, RegularEvent(0, SBCRunCutoff), def),
     WriteEvent(0, [RegularEvent(0, SBCRunCutoff) EXCEPT !.timeSBC = RegularTime(0)],
                def),
     WriteEvent(2, RegularEvent(2, SBCRunCutoff), def)}

SyncCalls ==
    {[fn |-> "CheckEventErrors",
      veto |-> WriteEvent(2,
                  [run |-> SBCRunCutoff, error |-> [e \in ErrFlags |-> e \in F],
                   badScaler |-> FALSE, timeSec |-> ts, timeSBC |-> tb,
                   SEC |-> c[1], QEC |-> c[2], QEC2 |-> c[3],
                   qdc |-> QDCPedestal], def),
      prev |-> WriteEvent(1, RegularEvent(1, SBCRunCutoff), def),
      first |-> f, prevGoodEntry |-> 1, ErrorVec |-> NoErrors] :
        F \in FlagSets, ts \in SyncScalerTimes, tb \in SyncSBCTimes,
        c \in SyncCounterReadings, f \in SyncFirstEvents}

SyncInit ==
    /\ chain = <<"ok">>
    /\ runNum = SBCRunCutoff
    /\ Declared
    /\ call \in SyncCalls
    /\ ret = NoCall

SyncSpec == SyncInit /\ [][ClassifyCall]_vars

\* ------------------------------------------------------------------------
\* Properties
\* ------------------------------------------------------------------------

\* C1: without errorCheckOnly the 3rd loop fills exactly one record per entry,
\* in the order of the entries: when it takes entry idx, idx records are in
\* the tree, and the step appends one record, that of entry idx, leaving the
\* earlier ones as they are; the record has badEvent set exactly when
\* CheckEventErrors returns skip for the entry, which is filled, not dropped.
OneRecordPerEvent ==
    [][(pc = "Emitting" /\ idx < vEntries) =>
          LET veto == WriteEvent(idx, Record(idx), swThresh)
              check == CheckEventErrors(veto, prev, first, prevGoodEntry)
          IN  /\ ~errorCheckOnly
              /\ Len(vetoTree) = idx
              /\ Len(vetoTree') = idx + 1
              /\ SubSeq(vetoTree', 1, idx) = vetoTree
              /\ vetoTree'[idx + 1].badEvent = check.skip
              /\ vetoTree'[idx + 1].EventErrors = check.errors
              /\ (~check.skip => vetoTree'[idx + 1].vetoEvent = veto)]_vars

\* C1: the 3rd loop is over, every entry has its record, and the tree holds
\* both a record marked badEvent and one that is not.
SkippedEventFilled ==
    /\ pc = "Done"
    /\ ~errorCheckOnly
    /\ Len(vetoTree) = vEntries
    /\ \E k \in 1 .. Len(vetoTree) : vetoTree[k].badEvent
    /\ \E k \in 1 .. Len(vetoTree) : ~vetoTree[k].badEvent

\* C2: whatever the arguments of a call of CheckEventErrors, the skip it
\* returns is true exactly when one of the slots 1,2,3,5,6,9,13,14 or 18..24
\* of the error vector it returns is true; slots 4,7,8,10,11,12,15,16,17 and
\* 25 alone never make it true.
SkipIffBlockingSlot ==
    (ret.fn = "CheckEventErrors") =>
        (ret.skip <=>
            \E q \in {1, 2, 3, 5, 6, 9, 13, 14} \cup {18, 19, 20, 21, 22, 23, 24} :
                ret.ErrorVec[q])

\* C2: a call has returned skip on a QDC1 count jump (slot 22) alone.
SkipOnCountJumpAlone ==
    /\ ret.fn = "CheckEventErrors"
    /\ ret.skip
    /\ ret.ErrorVec[22]
    /\ \A q \in ErrSlots \ {22} : ~ret.ErrorVec[q]

\* C3: the error vector CheckEventErrors returns has 29 slots, its slot 0 is
\* false whatever the 18 flags of the event are, slots 1..17 are the flags
\* 1..17 of the event, and nothing of what ErrorVec held before the call is
\* left in it (slots 26..28, which the function never sets, are false).
ErrorSetSlotZeroFalse ==
    (ret.fn = "CheckEventErrors") =>
        /\ DOMAIN ret.ErrorVec = 0 .. 28
        /\ ~ret.ErrorVec[0]
        /\ \A q \in 1 .. 17 : ret.ErrorVec[q] = call.veto.error[q]
        /\ \A q \in 26 .. 28 : ~ret.ErrorVec[q]

\* C4: the 3rd loop takes the time of entry idx (i) from the scaler when the
\* event is not bad-scaler, (ii) else from the SBC clock less SBCOffset when
\* run > 8557 and the SBC reading is below 2000000000, (iii) else from
\* InterpTime; ApproxTime is set by the selection in case (iii) only.  (On an
\* entry with a scaler jump found the jump handling then changes both.)
TimestampSelectionOrder ==
    [][(pc = "Emitting" /\ idx < vEntries) =>
          LET e == Record(idx)
              window == e.run > 8557 /\ TLt(e.timeSBC, TSec(2000000000))
              interpolated == e.badScaler /\ ~window
              selected == IF ~e.badScaler THEN e.timeSec
                          ELSE IF window THEN TSub(e.timeSBC, SBCOffset)
                          ELSE InterpTime(idx, EntryTime, EntryNum, BadScalers)
              jump == EventError'[18] \/ foundScalerJump
          IN  /\ ~jump => (xTime' = selected /\ ApproxTime' = interpolated)
              /\ interpolated => ApproxTime'
              /\ vetoTree'[idx + 1].xTime = xTime']_vars

\* C4: the 3rd loop has just taken the time of a bad-scaler entry from the
\* SBC clock, inside its validity window, and ApproxTime is not set.
AuxiliaryClockSelected ==
    /\ pc = "Emitting"
    /\ idx > 0
    /\ last.badScaler
    /\ last.run > 8557
    /\ TLt(last.timeSBC, TSec(2000000000))
    /\ xTime = TSub(last.timeSBC, SBCOffset)
    /\ ~ApproxTime

\* C5: the clocks agreed until the entry before idx, which got slot 18 and
\* skip on a difference D of the two clock deltas (deltaTadj = TSdifference
\* = D says so); entry idx, a good-scaler event without slot 18 whose clocks
\* are still more than 0.001 s apart, is given its scaler time less D.
DesyncCorrectsNextEvent ==
    [][(/\ pc = "Emitting"
        /\ 0 < idx
        /\ idx < vEntries
        /\ EventError[18]
        /\ badEvent
        /\ deltaTadj = TSdifference
        /\ ~Record(idx).badScaler
        /\ ~EventError'[18]
        /\ ~TLt(TAbs(TSdifference'), TMs(1)))
          => xTime' = TSub(Record(idx).timeSec, deltaTadj)]_vars

\* C6: foundScalerJump after an entry of the 3rd loop is false when the
\* entry's own scaler - SBC difference is within 0.001 s, and otherwise true
\* when the entry got slot 18 or the flag was true before: it is not cleared
\* on the entry that set it while the clocks are apart.  While the flag is
\* true the entry gets ApproxTime.
JumpRecoveryFlag ==
    [][(pc = "Emitting" /\ idx < vEntries) =>
          LET within == TLt(TAbs(TSdifference'), TMs(1))
          IN  /\ foundScalerJump' =
                    (~within /\ (EventError'[18] \/ foundScalerJump))
              /\ (foundScalerJump => ApproxTime')]_vars

\* C7: for a bad-scaler entry with a good-scaler entry before and after it in
\* the tables, InterpTime returns the mean of the times of the nearest
\* good-scaler entry before it and of the nearest one after it, entry 0
\* being the nearest one before it included.
InterpolationIsMeanOfNeighbours ==
    (ret.fn = "InterpTime") =>
        LET i == call.entry
            bad == call.badScaler
            before == {j \in 0 .. (i - 1) : ~At(bad, j)}
            after == {j \in (i + 1) .. (Len(bad) - 1) : ~At(bad, j)}
        IN  (At(bad, i) /\ before # {} /\ after # {}) =>
                ret.iTime = THalf(TAdd(At(call.times, Max(before)),
                                       At(call.times, Min(after))))

\* C8: CheckEventErrors sets slot 25 for an event exactly when the time
\* selection takes the InterpTime branch for it, run 8557 and an SBC reading
\* of 2000000000 included.
Slot25IffInterpolated ==
    (ret.fn = "CheckEventErrors") =>
        (ret.ErrorVec[25] <=> (TimeBranch(call.veto) = "interp"))

\* C9: the loops run in the order Calibrating (the threshold scan, then its
\* re-scan), RunSurvey, ErrorTally, Emitting, Done: a loop takes the entries
\* 0 .. N-1 one after the other, the next loop starts, at entry 0, only when
\* the last entry is done, and with errorCheckOnly the run goes from
\* ErrorTally to Done and fills no record.
PassOrder ==
    [][/\ (pc' = pc => (idx < vEntries /\ idx' = idx + 1))
       /\ (pc' # pc =>
              /\ idx = vEntries
              /\ <<pc, pc'>> \in {<<"Calibrating", "CalibRescan">>,
                                  <<"CalibRescan", "RunSurvey">>,
                                  <<"RunSurvey", "ErrorTally">>,
                                  <<"ErrorTally", "Emitting">>,
                                  <<"ErrorTally", "Done">>,
                                  <<"Emitting", "Done">>}
              /\ (pc' # "Done" => idx' = 0)
              /\ (pc = "ErrorTally" => (pc' = "Done" <=> errorCheckOnly)))
       /\ (vetoTree' # vetoTree => (pc = "Emitting" /\ ~errorCheckOnly))
       /\ ((errorCheckOnly /\ pc' = "Done") => vetoTree' = << >>)]_vars

\* C9: a run with errorCheckOnly, whose events carry serious errors, is done
\* after the 2nd loop has taken every entry, and the tree is empty.
ErrorCheckOnlyDone ==
    /\ pc = "Done"
    /\ errorCheckOnly
    /\ idx = vEntries
    /\ SeriousErrorCount > 0
    /\ vetoTree = << >>

\* C10: for an entry of the 3rd loop that is not a bad event, TimeCut is true
\* exactly when its multiplicity is below highestMultip - 5 (0 when that is
\* negative) or the run-level check of the LED period found the LED off;
\* slot 25 of single events does not change it.
TimeCutFromRunLevel ==
    [][(pc = "Emitting" /\ idx < vEntries /\ ~badEvent') =>
          LET floor == IF highestMultip - 5 < 0 THEN 0 ELSE highestMultip - 5
              multip == WriteEvent(idx, Record(idx), swThresh).multip
          IN  TimeCut' <=> (multip < floor \/ BadLEDRate(LEDperiod, badLEDFreq))]_vars

\* C11: the energy cut of an event that passed the error check is true
\* exactly when at least 2 of its 32 amplitudes are strictly above 500,
\* whatever the thresholds are; and when the energy cut is true and the
\* multiplicity is below the time-cut threshold the muon identification is
\* entered (CoinType[0] is set).
EnergyCutIffTwoAbove500 ==
    ret.fn = "MuonID" =>
        LET over500 == {q \in Channels : call.veto.qdc[q] > 500}
        IN  /\ ret.EnergyCut <=> Cardinality(over500) >= 2
            /\ (Cardinality(over500) >= 2
                    /\ call.veto.multip < call.multipThreshold)
                  => (ret.TimeCut /\ ret.CoinType[0] = 1)

\* Channels 24 and 25 alone at 600, their thresholds at 9999: the energy cut
\* is true and the muon identification is entered.
TwoChannelsAt600PassEnergyCut ==
    /\ ret.fn = "MuonID"
    /\ call.veto.qdc = QDCWith({24, 25}, 600)
    /\ call.swThresh = DisabledThresh
    /\ call.veto.multip = 0
    /\ call.multipThreshold > 0
    /\ ret.EnergyCut
    /\ ret.CoinType[0] = 1

\* C12: when both cuts pass, "vertical" is given exactly when planes 0, 1, 2
\* and 3 are all hit, "side+bottom" exactly when planes 0 and 1 are hit and a
\* lateral pair (4,5), (6,7), (8,9) or (10,11) is fully hit (the top pair
\* 2,3 is no lateral pair), "top+sides" exactly when planes 2 and 3 are hit
\* and a lateral pair is fully hit, and the type is "compound" exactly when
\* two of the three hold; so hit planes {0,1,2,3} give type "vertical".
GeometricTypesByLateralPairs ==
    (ret.fn = "MuonID" /\ ret.TimeCut /\ ret.EnergyCut) =>
        LET pt == ret.PlaneTrue
            lateral == (pt[4] = 1 /\ pt[5] = 1) \/ (pt[6] = 1 /\ pt[7] = 1)
                          \/ (pt[8] = 1 /\ pt[9] = 1) \/ (pt[10] = 1 /\ pt[11] = 1)
            a == pt[0] = 1 /\ pt[1] = 1 /\ pt[2] = 1 /\ pt[3] = 1
            b == pt[0] = 1 /\ pt[1] = 1 /\ lateral
            c == pt[2] = 1 /\ pt[3] = 1 /\ lateral
        IN  /\ ret.CoinType[1] = 1 <=> a
            /\ ret.CoinType[2] = 1 <=> b
            /\ ret.CoinType[3] = 1 <=> c
            /\ ret.type = 4 <=> ((a /\ b) \/ (a /\ c) \/ (b /\ c))
            /\ {p \in Planes : pt[p] = 1} = {0, 1, 2, 3}
                  => (ret.type = 1 /\ ret.CoinType[2] = 0)

\* C13: the base coincidence type CoinType[0] ("2+ planes") is given only to
\* an event that passes both cuts and has at least 2 distinct planes hit; an
\* event that passes both cuts with fewer than 2 planes hit gets no
\* coincidence type at all.
BaseTypeNeedsTwoPlanes ==
    ret.fn = "MuonID" =>
        /\ ret.CoinType[0] = 1
              => (ret.TimeCut /\ ret.EnergyCut /\ ret.PlaneHitCount >= 2)
        /\ (ret.TimeCut /\ ret.EnergyCut /\ ret.PlaneHitCount < 2)
              => \A r \in Channels : ret.CoinType[r] = 0

\* C14: FindPanelThreshold returns 9999 when the run is above 45000000 and
\* the channel above 23, before anything else; otherwise -1 when no
\* amplitude bin holds more than 1 count; otherwise the amplitude of the
\* fullest bin among the bins from 10 below to 50 above the first bin that
\* holds more than 1 count, plus 35, which is never below that amplitude.
ThresholdIsPedestalModePlus35 ==
    ret.fn = "FindPanelThreshold" =>
        LET h == call.qdcHist
            binned == {a \in {h[k] : k \in 1 .. Len(h)} : a >= 0 /\ a <= 499}
            noisy == {a \in binned :
                         Cardinality({k \in 1 .. Len(h) : h[k] = a}) > 1}
        IN  IF call.runNum > 45000000 /\ call.panel > 23 THEN ret.thresh = 9999
            ELSE IF noisy = {} THEN ret.thresh = -1
            ELSE \E mode \in {a \in binned :
                                 a >= Min(noisy) - 10 /\ a <= Min(noisy) + 50} :
                    /\ \A b \in binned :
                          (b >= Min(noisy) - 10 /\ b <= Min(noisy) + 50) =>
                             Cardinality({k \in 1 .. Len(h) : h[k] = b})
                                <= Cardinality({k \in 1 .. Len(h) : h[k] = mode})
                    /\ ret.thresh = mode + 35
                    /\ ret.thresh >= mode

\* Two fills at 50 and three at 58 on an enabled channel: the threshold is
\* 58 + 35, above the first bin over the noise floor.
ThresholdFromModeAbovePedestal ==
    /\ ret.fn = "FindPanelThreshold"
    /\ call.qdcHist = <<50, 50, 58, 58, 58>>
    /\ call.panel = 24
    /\ call.runNum = 45000000
    /\ ret.thresh = 93

\* C15: an event that carries a blocking error, structural (slots 1, 2, 3,
\* 5, 6, 9, 13, 14) or of synchronization (slots 18 to 24), puts no amplitude
\* in the calibration histograms, and every other event puts each of its 32
\* amplitudes in them once: a histogram holds as many fills as the run has
\* events that the classifier does not mark bad.
CalibrationFillsAreTheGoodEvents ==
    (pc = "Done" /\ ~errorCheckOnly) =>
        \A q \in Channels :
            Len(hLowQDC[q])
                = Cardinality({k \in 1 .. Len(vetoTree) : ~vetoTree[k].badEvent})

\* C16: in the 1st loop the delta put in LEDDeltaT for an event that is not
\* skipped and whose multiplicity is above 10 is its scaler time minus the
\* scaler time of the previous event whose multiplicity was above 10 too
\* (stated on the runs in which no event is skipped).
DeltaSincePreviousLEDEvent ==
    [][(pc = "RunSurvey" /\ idx < vEntries /\ Irregular(chain) = {}
           /\ Len(LEDDeltaT') = Len(LEDDeltaT) + 1) =>
          LET earlier == {j \in 0 .. (idx - 1) :
                             WriteEvent(j, Record(j), swThresh).multip > 10}
          IN  earlier # {} =>
                 LEDDeltaT'[Len(LEDDeltaT')]
                    = TSub(Record(idx).timeSec, Record(Max(earlier)).timeSec)]_vars

\* C17: when the period of the histogram is above 9 s or the run has fewer
\* than 100 events, the period becomes duration / simpleLEDCount whenever at
\* least 3 events were above the multiplicity threshold, exactly 3 included,
\* and the frequency is marked unreliable (period 9999, badLEDFreq) only when
\* there were fewer than 3.
ShortRunFallbackFromThreeEvents ==
    (ret.fn = "RunLevelChecks"
        /\ (call.vEntries < 100 \/ FracGt(HistoPeriod(call.LEDDeltaT), 9))) =>
        IF call.simpleLEDCount >= 3
        THEN /\ ret.LEDperiod.n * (SubSec * call.simpleLEDCount)
                   = (call.duration.s * SubSec + call.duration.f) * ret.LEDperiod.d
             /\ ~ret.badLEDFreq
        ELSE /\ ret.LEDperiod = Frac(9999, 1)
             /\ ret.badLEDFreq

\* C18: the run-level bad-LED error is flagged exactly when the final period
\* is outside (0, 20], that is at or below 0 or above 20, or the frequency
\* is marked unreliable; with no event above the multiplicity threshold the
\* period is the sentinel 9999 and the error is flagged.
BadPeriodFlaggedOutsideRange ==
    ret.fn = "RunLevelChecks" =>
        /\ ret.flagged <=> (ret.LEDperiod.n <= 0
                               \/ ret.LEDperiod.n > 20 * ret.LEDperiod.d
                               \/ ret.badLEDFreq)
        /\ call.simpleLEDCount = 0
              => (ret.LEDperiod = Frac(9999, 1) /\ ret.flagged)

\* C19: the 3rd loop sets the is-LED flag CutType[4] on the records of the
\* LED events, the events of high multiplicity that the time cut excludes:
\* a run with k such events has k records with the flag set.
LEDFlagOnEveryLEDEvent ==
    (pc = "Done" /\ ~errorCheckOnly) =>
        Cardinality({k \in 1 .. Len(vetoTree) :
                        ~vetoTree[k].badEvent /\ vetoTree[k].CutType[4] = 1})
            = Cardinality({k \in 1 .. Len(vetoTree) :
                        ~vetoTree[k].badEvent /\ vetoTree[k].CutType[3] = 0})

\* C20: PanelMap puts every channel 0..31 in one of the planes 0..11 and
\* any other index in none (-1), and every plane has a member channel; for
\* an event that passed the error check plane p is marked hit exactly when a
\* member channel has its amplitude strictly above its threshold, the hits
\* of the planes add up to the number of channels above threshold, and the
\* hit count is the number of planes marked hit, from 0 to 12.
PlanePatternFromMemberChannels ==
    /\ \A q \in Channels : PanelMap(q) \in Planes
    /\ PanelMap(-1) = -1
    /\ PanelMap(NumChannels) = -1
    /\ \A p \in 0 .. 11 : \E q \in 0 .. 31 : PanelMap(q) = p
    /\ ret.fn = "MuonID" =>
          LET over == {q \in 0 .. 31 : call.veto.qdc[q] > call.swThresh[q]}
          IN  /\ \A p \in 0 .. 11 :
                    /\ ret.PlaneTrue[p] = 1 <=> (\E q \in over : PanelMap(q) = p)
                    /\ ret.PlaneHits[p] = Cardinality({q \in over : PanelMap(q) = p})
              /\ SumCounts(ret.PlaneHits, 0 .. 11) = Cardinality(over)
              /\ ret.PlaneHitCount
                    = Cardinality({p \in 0 .. 11 : ret.PlaneTrue[p] = 1})
              /\ ret.PlaneHitCount \in 0 .. 12

\* Channels 0 and 6 at their threshold 85 and no channel above it: no plane
\* is hit.
AmplitudeAtThresholdHitsNoPlane ==
    /\ ret.fn = "MuonID"
    /\ call.veto.qdc = QDCWith({0, 6}, 85)
    /\ call.swThresh = CalibratedThresh
    /\ ret.PlaneHitCount = 0

\* C21: when the first good event is not established (first.GetEntry() is
\* -1) the classifier returns with only the structural flags: every slot
\* from 18 to 28, slot 25 included, is false whatever the bad-scaler flag,
\* the run number and the clocks of the event are, and skip is decided by the
\* structural blocking slots alone.
EarlyReturnOnlyStructural ==
    (ret.fn = "CheckEventErrors" /\ call.first.entry = -1) =>
        /\ \A q \in 18 .. 28 : ~ret.ErrorVec[q]
        /\ ret.skip <=> (\E q \in {1, 2, 3, 5, 6, 9, 13, 14} : ret.ErrorVec[q])

\* C21 as the code has it: when the first good event is not established the
\* slots 18 to 24 and 26 to 28 are false and skip is decided by the
\* structural blocking slots alone, while slot 25 is set, as in every call,
\* exactly when the event has a bad scaler and its run is below 8557 or its
\* SBC time above 2000000000.
EarlyReturnStructuralAndSlot25 ==
    (ret.fn = "CheckEventErrors" /\ call.first.entry = -1) =>
        /\ \A q \in (18 .. 28) \ {25} : ~ret.ErrorVec[q]
        /\ ret.ErrorVec[25] <=>
              (call.veto.badScaler
                  /\ (call.veto.run < 8557
                         \/ call.veto.timeSBC.s > 2000000000
                         \/ (call.veto.timeSBC.s = 2000000000
                                /\ call.veto.timeSBC.f > 0)))
        /\ ret.skip <=> (\E q \in {1, 2, 3, 5, 6, 9, 13, 14} : ret.ErrorVec[q])

\* A bad-scaler event of run 8556 whose scaler count jumped, classified
\* before the first good event is known: slot 25 is set, slot 20 is not, and
\* the event is not skipped.
EarlyReturnWithSlot25Set ==
    /\ ret.fn = "CheckEventErrors"
    /\ call.first.entry = -1
    /\ call.veto.badScaler
    /\ call.veto.run = 8556
    /\ call.veto.SEC = 7
    /\ ret.ErrorVec[25]
    /\ ~ret.ErrorVec[20]
    /\ ~ret.skip

\* C22: with the first good event known, slot 18 is set exactly when the
\* scaler time of the event is positive, its SBC time minus the offset is
\* positive, the offset is not 0, its entry exceeds the first good entry and
\* the scaler delta and the SBC delta since the previous event differ by
\* strictly more than 2 s; no flag of the event enters the condition.
DesyncSlotFromClocksAlone ==
    (ret.fn = "CheckEventErrors" /\ call.first.entry # -1) =>
        LET offset == TSub(call.first.timeSBC, call.first.timeSec)
            dSec == TSub(call.veto.timeSec, call.prev.timeSec)
            dSBC == TSub(call.veto.timeSBC, call.prev.timeSBC)
            diff == TAbs(TSub(dSec, dSBC))
        IN  ret.ErrorVec[18] <=>
               /\ TGt(call.veto.timeSec, TZero)
               /\ TGt(TSub(call.veto.timeSBC, offset), TZero)
               /\ offset # TZero
               /\ call.veto.entry > call.first.entry
               /\ (diff.s > 2 \/ (diff.s = 2 /\ diff.f > 0))

\* C22 as the code has it: with the first good event known, slot 18 is set
\* exactly when the scaler time is positive, the SBC time minus the offset is
\* positive, the offset is not 0, the structural flag 1 (missing channels)
\* of the event is false, its entry exceeds the first good entry and the two
\* deltas differ by strictly more than 2 s.
DesyncSlotUnlessMissingChannels ==
    (ret.fn = "CheckEventErrors" /\ call.first.entry # -1) =>
        LET offset == TSub(call.first.timeSBC, call.first.timeSec)
            dSec == TSub(call.veto.timeSec, call.prev.timeSec)
            dSBC == TSub(call.veto.timeSBC, call.prev.timeSBC)
            diff == TAbs(TSub(dSec, dSBC))
        IN  ret.ErrorVec[18] <=>
               /\ TGt(call.veto.timeSec, TZero)
               /\ TGt(TSub(call.veto.timeSBC, offset), TZero)
               /\ offset # TZero
               /\ ~call.veto.error[1]
               /\ call.veto.entry > call.first.entry
               /\ (diff.s > 2 \/ (diff.s = 2 /\ diff.f > 0))

\* The scaler of entry 2 is exactly 2 s ahead of its SBC clock, every other
\* condition holding: slot 18 is not set.
DesyncOfExactlyTwoSecondsNotSet ==
    /\ ret.fn = "CheckEventErrors"
    /\ call.first = WriteEvent(0, RegularEvent(0, SBCRunCutoff), def)
    /\ call.veto.error = [e \in ErrFlags |-> FALSE]
    /\ call.veto.timeSec = TAdd(RegularTime(2), TSec(2))
    /\ call.veto.timeSBC = TAdd(TSec(1000), RegularTime(2))
    /\ ~ret.ErrorVec[18]

\* C23: with the first good event known, the reset slot of a counter (SEC:
\* 19, QEC: 21, QEC2: 23) is set exactly when the counter of the event reads
\* 0 and its entry exceeds the first good entry and, for QEC and QEC2 only,
\* the structural flag 1 of the event is false.
ResetSlotsFromZeroCounters ==
    (ret.fn = "CheckEventErrors" /\ call.first.entry # -1) =>
        LET past == call.veto.entry > call.first.entry
        IN  /\ ret.ErrorVec[19] <=> (call.veto.SEC = 0 /\ past)
            /\ ret.ErrorVec[21] <=>
                  (call.veto.QEC = 0 /\ past /\ ~call.veto.error[1])
            /\ ret.ErrorVec[23] <=>
                  (call.veto.QEC2 = 0 /\ past /\ ~call.veto.error[1])

\* An event with flag 1 set whose scaler count is 0: slot 19 is set.
ScalerResetWithMissingChannels ==
    /\ ret.fn = "CheckEventErrors"
    /\ call.first.entry = 0
    /\ call.veto.error[1]
    /\ call.veto.SEC = 0
    /\ ret.ErrorVec[19]
    /\ ~ret.ErrorVec[21]

\* C24: with the first good event known, the jump slot of a counter (SEC:
\* 20, QEC: 22, QEC2: 24) is set exactly when the counter differs from the
\* one of the previous event by strictly more than the entry minus the
\* previous good entry, the counter of the event is not 0 and its entry
\* exceeds the first good entry; an advance by exactly the number of entries
\* since the previous good entry sets no jump slot.
JumpSlotsFromCounterSteps ==
    (ret.fn = "CheckEventErrors" /\ call.first.entry # -1) =>
        LET past == call.veto.entry > call.first.entry
            gap == call.veto.entry - call.prevGoodEntry
        IN  /\ ret.ErrorVec[20] <=>
                  ((call.veto.SEC - call.prev.SEC > gap
                       \/ call.prev.SEC - call.veto.SEC > gap)
                     /\ call.veto.SEC # 0 /\ past)
            /\ ret.ErrorVec[22] <=>
                  ((call.veto.QEC - call.prev.QEC > gap
                       \/ call.prev.QEC - call.veto.QEC > gap)
                     /\ call.veto.QEC # 0 /\ past)
            /\ ret.ErrorVec[24] <=>
                  ((call.veto.QEC2 - call.prev.QEC2 > gap
                       \/ call.prev.QEC2 - call.veto.QEC2 > gap)
                     /\ call.veto.QEC2 # 0 /\ past)

\* The three counters of entry 2 are one more than those of entry 1, the
\* previous good entry: no jump slot is set.
CounterAdvanceByOneSetsNoJump ==
    /\ ret.fn = "CheckEventErrors"
    /\ call.first.entry = 0
    /\ call.prevGoodEntry = 1
    /\ call.veto.SEC = call.prev.SEC + 1
    /\ call.veto.QEC = call.prev.QEC + 1
    /\ call.veto.QEC2 = call.prev.QEC2 + 1
    /\ ~ret.ErrorVec[20] /\ ~ret.ErrorVec[22] /\ ~ret.ErrorVec[24]

ErrorTotalsCountEachEventOnce ==
    (pc = "Done" /\ ~errorCheckOnly) =>
        \A j \in 1 .. 24 :
            ErrorCount[j]
                = Cardinality({k \in 1 .. Len(vetoTree) : vetoTree[k].EventErrors[j]})

\* C28: in every loop, when the classifier is called for entry i >= 1 the
\* previous event is the copy of entry i-1 and prevGoodEntry is i-1, whether
\* or not entry i-1 or an earlier entry was skipped: the tolerance of the
\* counter-jump checks, entry minus prevGoodEntry, is always 1.
PreviousIsImmediatePredecessor ==
    (pc \in {"Calibrating", "CalibRescan", "RunSurvey", "ErrorTally", "Emitting"}
        /\ idx >= 1) =>
        /\ prevGoodEntry = idx - 1
        /\ idx - prevGoodEntry = 1
        /\ [prev EXCEPT !.multip = 0]
              = [WriteEvent(idx - 1, Record(idx - 1), def) EXCEPT !.multip = 0]

\* The 3rd loop is about to classify entry 3 after skipping entries 1 and 2:
\* prevGoodEntry is 2.
PredecessorAfterSkippedEvents ==
    /\ pc = "Emitting"
    /\ idx = 3
    /\ vEntries = 4
    /\ skippedEvents = 2
    /\ chain[2] = "miss"
    /\ chain[3] = "miss"
    /\ prev.entry = 2
    /\ prevGoodEntry = 2

\* C29: every output record describes the input event at its own position:
\* for each entry, bad events included, the event payload, the cut flags, the
\* coincidence types and the plane vectors of the record are those computed
\* from that entry, never values left over from an earlier event.
RecordDescribesOwnEvent ==
    \A k \in 1 .. Len(vetoTree) :
        LET veto == WriteEvent(k - 1, Record(k - 1), swThresh)
            above == ChannelsAbove(veto.qdc, swThresh)
            true == [p \in Planes |-> B2I(PlaneHitsOf(above, p) > 0)]
            eCut == EnergyCutOf(veto.qdc)
            tCut == TimeCutOf(veto.multip, multipThreshold,
                              LEDOff(vetoTree[k].ErrorCount))
        IN  /\ vetoTree[k].vetoEvent = veto
            /\ vetoTree[k].CutType[1] = B2I(eCut)
            /\ vetoTree[k].CutType[3] = B2I(tCut)
            /\ \A p \in Planes :
                  /\ vetoTree[k].PlaneHits[p] = PlaneHitsOf(above, p)
                  /\ vetoTree[k].PlaneTrue[p] = true[p]
            /\ vetoTree[k].PlaneHitCount = Cardinality({p \in Planes : true[p] = 1})

\* C30: the passes agree on the classifier: for every entry the error set
\* counted by the 2nd loop and the error set counted, the error set recorded
\* and the skip recorded by the 3rd loop are those of one call for the entry
\* and its predecessor, although the 2nd loop starts with the previous event
\* and the previous good entry the 1st loop left and the 3rd loop with a
\* cleared previous event and the previous good entry the 2nd loop left.
PassesAgreeOnClassification ==
    [][(pc \in {"ErrorTally", "Emitting"} /\ idx < vEntries) =>
          LET veto == WriteEvent(idx, Record(idx), swThresh)
              before == IF idx = 0 THEN ClearedEvent
                        ELSE WriteEvent(idx - 1, Record(idx - 1), swThresh)
              entry == CheckEventErrors(veto, before, first,
                                        IF idx = 0 THEN 0 ELSE idx - 1)
          IN  /\ ErrorCount' = CountErrors(ErrorCount, entry.errors)
              /\ pc = "Emitting" =>
                    /\ EventError' = entry.errors
                    /\ badEvent' = entry.skip
                    /\ vetoTree'[idx + 1].EventErrors = entry.errors
                    /\ vetoTree'[idx + 1].badEvent = entry.skip]_vars

\* The 3rd loop has classified every entry of a run whose last entry is out
\* of step with the SBC clock: the 2nd loop classified entry 0 against that
\* last entry, the 3rd loop against a cleared event.
PassesClassifiedDesyncRun ==
    /\ pc = "Emitting"
    /\ idx = vEntries
    /\ vEntries >= 2
    /\ first.entry = 0
    /\ prevGoodEntry = vEntries - 1
    /\ vetoTree[vEntries].EventErrors[18]
    /\ vetoTree[vEntries].badEvent
    /\ \A j \in ErrSlots : ~vetoTree[1].EventErrors[j]

=============================================================================
